---- MODULE Spec2Model ----
(***************************************************************************)
(* bagels-quick (bq): the command handlers of src/bagels_quick/cli.py as a *)
(* state machine over the host application's database file with its      *)
(* tables account, category and record, the JSON config file, the wall    *)
(* clock and the way each bq process ends.                                 *)
(*                                                                         *)
(* Names are sequences of one-character strings so that LOWER() and LIKE   *)
(* are computed character by character.  Amounts and balances are exact    *)
(* integers; datetimes are integer ticks of one clock.                     *)
(***************************************************************************)
EXTENDS Integers, Sequences, FiniteSets, TLC

VARIABLES db, accounts, categories, records, config, now, last, proc

vars == <<db, accounts, categories, records, config, now, last, proc>>

(* ------------------------------ bounds -------------------------------- *)

\* The clock moves on with every command that writes; once it has passed
\* MaxNow only undo runs.
MaxNow == 1

(* ----------------------------- constants ------------------------------ *)

\* SQL NULL / Python None in an id column.
NULL == 0

\* An option that was not passed on the command line is the empty set, an
\* option passed with value v is {v}.
Opt(S) == {{}} \cup {{x} : x \in S}
Given(o) == o # {}
Val(o) == CHOOSE x \in o : TRUE

\* Python truthiness of an optional string: None and "" are both false.
Truthy(o) == Given(o) /\ Val(o) # <<>>

(* ------------------------- strings, LOWER, LIKE ----------------------- *)

\* SQLite LOWER() on one character.
LowerChar(c) ==
    CASE c = "A" -> "a"
      [] c = "B" -> "b"
      [] c = "C" -> "c"
      [] c = "F" -> "f"
      [] c = "O" -> "o"
      [] c = "D" -> "d"
      [] OTHER -> c

Lower(s) == [i \in 1..Len(s) |-> LowerChar(s[i])]

\* SQLite `s LIKE p`: % matches any run of characters, _ matches any one
\* character, every other character matches itself ignoring ASCII case.
RECURSIVE LikeMatch(_, _)
LikeMatch(p, s) ==
    IF p = <<>> THEN s = <<>>
    ELSE IF Head(p) = "%"
         THEN LikeMatch(Tail(p), s) \/ (s # <<>> /\ LikeMatch(p, Tail(s)))
    ELSE IF Head(p) = "_"
         THEN s # <<>> /\ LikeMatch(Tail(p), Tail(s))
    ELSE s # <<>> /\ LowerChar(Head(p)) = LowerChar(Head(s))
                  /\ LikeMatch(Tail(p), Tail(s))

\* f"%{search}%"
LikePattern(search) == <<"%">> \o search \o <<"%">>

(* ------------------------------ fixtures ------------------------------ *)

\* The literal 'Outside source' of get_default_account.
OutsideSource == <<"O", "s">>

AccountIds == 1..3
CategoryIds == 1..3

\* Account tables the host application has created.  Account 3 is
\* soft-deleted and carries a name that matches live names.
AccountFixtures ==
    { [i \in AccountIds |->
         CASE i = 1 -> [name |-> <<"A", "b">>, beginningBalance |-> 100,
                        deletedAt |-> NULL, updatedAt |-> 0]
           [] i = 2 -> [name |-> <<"A", "b", "c">>, beginningBalance |-> 0,
                        deletedAt |-> NULL, updatedAt |-> 0]
           [] i = 3 -> [name |-> <<"a", "b">>, beginningBalance |-> 7,
                        deletedAt |-> 1, updatedAt |-> 0]],
      [i \in AccountIds |->
         CASE i = 1 -> [name |-> OutsideSource, beginningBalance |-> 0,
                        deletedAt |-> NULL, updatedAt |-> 0]
           [] i = 2 -> [name |-> <<"A", "b">>, beginningBalance |-> 100,
                        deletedAt |-> NULL, updatedAt |-> 0]
           [] i = 3 -> [name |-> <<"c">>, beginningBalance |-> 0,
                        deletedAt |-> NULL, updatedAt |-> 0]] }

CategoryFixtures ==
    { [i \in CategoryIds |->
         CASE i = 1 -> [name |-> <<"F", "o">>, deletedAt |-> NULL]
           [] i = 2 -> [name |-> <<"F", "o", "d">>, deletedAt |-> NULL]
           [] i = 3 -> [name |-> <<"f", "o">>, deletedAt |-> 1]] }

\* Search strings typed for -a/--from/--to and for -c.
AccountSearches ==
    { <<"a", "b">>, <<"A", "B", "C">>, <<"c">>, <<"b">>, <<"x">>, <<"%">> }
CategorySearches ==
    { <<"f", "o">>, <<"d">>, <<"o">>, <<"x">>, <<"%">> }

Amounts == {0, 50}
NewAmounts == {0, 30}
Deltas == {-20, 0, 20}
Targets == {-5, 0, 75}
Labels == {"coffee"}
NewLabels == {"tea"}
\* Date strings typed for -d, each a sequence of text chunks; <<>> is "".
DateStrs == {<<"2024-01-01">>, <<"01/02/2024">>}

\* The config file: whether CONFIG_PATH exists and the JSON object in it.
\* JSON null and Python None are the empty string <<>>.
ConfigFile(exists, saved) == [exists |-> exists, saved |-> saved]
NoConfigFile == ConfigFile(FALSE, [k \in {} |-> NULL])

\* Config files the user has: none, or one that sets three known keys,
\* leaves show_balance_after_add out and holds a key bq does not know.
ConfigFixtures ==
    { NoConfigFile,
      ConfigFile(TRUE, [default_account |-> <<"A", "b", "c">>,
                        default_category |-> <<"F", "o", "d">>,
                        confirm_undo |-> FALSE, theme |-> "dark"]) }

\* KEY and VALUE typed for `bq config set`.
ConfigKeys ==
    {"default_account", "default_category", "confirm_undo", "show_balance_after_add", "theme"}
ConfigValues ==
    { <<"c">>, <<"b">>, <<"d">>, <<"o">>, <<"a", "b">>, <<"n", "o", "n", "e">>,
      <<"O", "n">>, <<"0">> }

\* datetime.strptime(s, "%Y-%m-%d"): the parsed day, or ValueError.
ValidDate(s) == s = <<"2024-01-01">>
ParseDate(s) == IF s = <<"2024-01-01">> THEN -10 ELSE NULL

\* Records the host application wrote before bq first ran.  HostExpense is
\* dated in the future; HostTransfer was created after it.
HostExpense ==
    [id |-> 1, createdAt |-> -2, updatedAt |-> -2, label |-> "rent", amount |-> 20,
     date |-> 9, accountId |-> 2, categoryId |-> 1, isInProgress |-> FALSE,
     isIncome |-> FALSE, isTransfer |-> FALSE, transferToAccountId |-> NULL]
HostTransfer ==
    [id |-> 2, createdAt |-> -1, updatedAt |-> -1, label |-> "move", amount |-> 50,
     date |-> -1, accountId |-> 1, categoryId |-> NULL, isInProgress |-> FALSE,
     isIncome |-> FALSE, isTransfer |-> TRUE, transferToAccountId |-> 2]
\* A record whose createdAt is later than the time bq reads from the clock:
\* the host wrote it before the local clock was set back (datetime.now() is
\* naive local time, which repeats an hour when daylight saving ends).
HostAhead ==
    [id |-> 1, createdAt |-> 5, updatedAt |-> 5, label |-> "gift", amount |-> 20,
     date |-> 5, accountId |-> 1, categoryId |-> NULL, isInProgress |-> FALSE,
     isIncome |-> TRUE, isTransfer |-> FALSE, transferToAccountId |-> NULL]
RecordFixtures == { {}, {HostExpense, HostTransfer} }

(* ------------------------------ resolver ------------------------------ *)

Found(id, name) == [kind |-> "found", id |-> id, name |-> name, names |-> {}]
NotFound == [kind |-> "none", id |-> NULL, name |-> <<>>, names |-> {}]
Ambiguous(names) == [kind |-> "ambiguous", id |-> NULL, name |-> <<>>, names |-> names]

MinOf(S) == CHOOSE x \in S : \A y \in S : x <= y

\* find_account without the exact-name query: the LIKE query alone.
find_account_like_only(tbl, search) ==
    LET results == {i \in DOMAIN tbl : LikeMatch(Lower(LikePattern(search)), Lower(tbl[i].name))
                                       /\ tbl[i].deletedAt = NULL}
    IN  IF Cardinality(results) = 1
        THEN Found(MinOf(results), tbl[MinOf(results)].name)
        ELSE IF Cardinality(results) > 1
             THEN Ambiguous({tbl[i].name : i \in results})
        ELSE NotFound

\* find_account(conn, search) on the account table `tbl`.
find_account(tbl, search) ==
    LET exact == {i \in DOMAIN tbl : Lower(tbl[i].name) = Lower(search)
                                     /\ tbl[i].deletedAt = NULL}
        results == {i \in DOMAIN tbl : LikeMatch(Lower(LikePattern(search)), Lower(tbl[i].name))
                                       /\ tbl[i].deletedAt = NULL}
    IN  IF exact # {} THEN Found(MinOf(exact), tbl[MinOf(exact)].name)
        ELSE IF Cardinality(results) = 1
             THEN Found(MinOf(results), tbl[MinOf(results)].name)
        ELSE IF Cardinality(results) > 1
             THEN Ambiguous({tbl[i].name : i \in results})
        ELSE NotFound

\* find_category with `AND deletedAt IS NULL` missing from both queries.
find_category_with_deleted(tbl, search) ==
    LET exact == {i \in DOMAIN tbl : Lower(tbl[i].name) = Lower(search)}
        results == {i \in DOMAIN tbl : LikeMatch(Lower(LikePattern(search)), Lower(tbl[i].name))}
    IN  IF exact # {} THEN Found(MinOf(exact), tbl[MinOf(exact)].name)
        ELSE IF Cardinality(results) = 1
             THEN Found(MinOf(results), tbl[MinOf(results)].name)
        ELSE IF Cardinality(results) > 1
             THEN Ambiguous({tbl[i].name : i \in results})
        ELSE NotFound

\* find_category(conn, search) on the category table `tbl`.
find_category(tbl, search) ==
    LET exact == {i \in DOMAIN tbl : Lower(tbl[i].name) = Lower(search)
                                     /\ tbl[i].deletedAt = NULL}
        results == {i \in DOMAIN tbl : LikeMatch(Lower(LikePattern(search)), Lower(tbl[i].name))
                                       /\ tbl[i].deletedAt = NULL}
    IN  IF exact # {} THEN Found(MinOf(exact), tbl[MinOf(exact)].name)
        ELSE IF Cardinality(results) = 1
             THEN Found(MinOf(results), tbl[MinOf(results)].name)
        ELSE IF Cardinality(results) > 1
             THEN Ambiguous({tbl[i].name : i \in results})
        ELSE NotFound

\* get_default_account(conn): the configured account when it resolves, else
\* the first live account not named 'Outside source', else the first live
\* account; kind "none" stands for "No accounts found".
get_default_account(tbl, cfg) ==
    LET r == find_account(tbl, cfg.default_account)
        inside == {i \in DOMAIN tbl : tbl[i].deletedAt = NULL /\ tbl[i].name # OutsideSource}
        live == {i \in DOMAIN tbl : tbl[i].deletedAt = NULL}
    IN  IF cfg.default_account # <<>> /\ r.kind # "none" THEN r
        ELSE IF inside # {} THEN Found(MinOf(inside), tbl[MinOf(inside)].name)
        ELSE IF live # {} THEN Found(MinOf(live), tbl[MinOf(live)].name)
        ELSE NotFound

\* get_default_category(conn)
get_default_category(tbl, cfg) ==
    IF cfg.default_category # <<>> THEN find_category(tbl, cfg.default_category)
    ELSE NotFound

(* -------------------------- balance calculator ------------------------ *)

RECURSIVE SumAmount(_)
\* COALESCE(SUM(amount), 0) over a set of rows
SumAmount(rows) ==
    IF rows = {} THEN 0
    ELSE LET r == CHOOSE x \in rows : TRUE IN r.amount + SumAmount(rows \ {r})

\* calculate_account_balance with `AND isTransfer = 0` missing from the
\* expenses query.
BalanceCountingTransfersAsExpenses(rows, account_id, beginning_balance) ==
    LET income == SumAmount({r \in rows : r.accountId = account_id /\ r.isIncome /\ ~r.isTransfer})
        expenses == SumAmount({r \in rows : r.accountId = account_id /\ ~r.isIncome})
        transfers_out == SumAmount({r \in rows : r.accountId = account_id /\ r.isTransfer})
        transfers_in == SumAmount({r \in rows : r.transferToAccountId = account_id})
    IN  beginning_balance + income - expenses - transfers_out + transfers_in

\* calculate_account_balance without the transfers_in query.
BalanceWithoutTransfersIn(rows, account_id, beginning_balance) ==
    LET income == SumAmount({r \in rows : r.accountId = account_id /\ r.isIncome /\ ~r.isTransfer})
        expenses == SumAmount({r \in rows : r.accountId = account_id /\ ~r.isIncome /\ ~r.isTransfer})
        transfers_out == SumAmount({r \in rows : r.accountId = account_id /\ r.isTransfer})
    IN  beginning_balance + income - expenses - transfers_out

\* calculate_account_balance(conn, account_id, beginning_balance)
calculate_account_balance(rows, account_id, beginning_balance) ==
    LET income == SumAmount({r \in rows : r.accountId = account_id /\ r.isIncome /\ ~r.isTransfer})
        expenses == SumAmount({r \in rows : r.accountId = account_id /\ ~r.isIncome /\ ~r.isTransfer})
        transfers_out == SumAmount({r \in rows : r.accountId = account_id /\ r.isTransfer})
        transfers_in == SumAmount({r \in rows : r.transferToAccountId = account_id})
    IN  beginning_balance + income - expenses - transfers_out + transfers_in

(* ------------------------------ config -------------------------------- *)

\* The `defaults` dictionary of get_config.
Defaults ==
    [default_account |-> <<>>, default_category |-> <<>>, confirm_undo |-> TRUE,
     show_balance_after_add |-> FALSE]

\* get_config reading only the keys it knows from the file.
get_config_known_keys(file) ==
    [k \in DOMAIN Defaults |->
        IF file.exists /\ k \in DOMAIN file.saved THEN file.saved[k] ELSE Defaults[k]]

\* get_config(): defaults.update(saved) when the file exists.
get_config(file) ==
    IF file.exists
    THEN [k \in DOMAIN Defaults \cup DOMAIN file.saved |->
             IF k \in DOMAIN file.saved THEN file.saved[k] ELSE Defaults[k]]
    ELSE Defaults

\* save_config(config): the file json.dump leaves.
save_config(cfg) == ConfigFile(TRUE, cfg)

\* The words config set takes for a boolean, after value.lower().
TrueWords == { <<"t", "r", "u", "e">>, <<"1">>, <<"y", "e", "s">>, <<"o", "n">> }
FalseWords == { <<"f", "a", "l", "s", "e">>, <<"0">>, <<"n", "o">>, <<"o", "f", "f">> }
NoneWord == <<"n", "o", "n", "e">>

(* ------------------------------- state -------------------------------- *)

NoArgs ==
    [amount |-> {}, label |-> {}, category |-> {}, account |-> {}, income |-> {},
     date |-> {}, num |-> {}, from |-> {}, to |-> {}, key |-> {}, value |-> {}]

\* What the last command was, how it ended, the arguments it ran with and
\* the id of the record it wrote or deleted.
Outcome(cmd, status, args, id) == [cmd |-> cmd, status |-> status, args |-> args, id |-> id]

\* How the process of the last command ended: its exit status, the number
\* of database connections it opened and the number it closed.
Exited(code, opened, closed) == [code |-> code, opened |-> opened, closed |-> closed]

\* The tables of a database file that does not exist.
NoTable == [i \in {} |-> NULL]

Init ==
    /\ \/ /\ db = TRUE
          /\ accounts \in AccountFixtures
          /\ categories \in CategoryFixtures
          /\ records \in RecordFixtures
          /\ config \in ConfigFixtures
       \/ /\ db = TRUE
          /\ accounts \in {a \in AccountFixtures : a[1].name # OutsideSource}
          /\ categories \in CategoryFixtures
          /\ records = {HostAhead}
          /\ config = NoConfigFile
       \/ /\ db = FALSE
          /\ accounts = NoTable /\ categories = NoTable /\ records = {}
          /\ config \in ConfigFixtures
    /\ now = 1
    /\ last = Outcome("none", "ok", NoArgs, NULL)
    /\ proc = Exited(0, 0, 0)

\* A ClickException leaves the handler with the cleanup skipped: the
\* connections stay open.
RaisesWithoutFinally(cmd, status, args, opened) ==
    /\ last' = Outcome(cmd, status, args, NULL)
    /\ proc' = Exited(1, opened, 0)
    /\ UNCHANGED <<db, accounts, categories, records, config, now>>

\* A ClickException leaves the handler after the loaded config was saved.
RaisesAfterSave(cmd, status, args, opened) ==
    /\ last' = Outcome(cmd, status, args, NULL)
    /\ proc' = Exited(1, opened, opened)
    /\ config' = save_config(get_config(config))
    /\ UNCHANGED <<db, accounts, categories, records, now>>

\* `raise click.ClickException(...)`: nothing was written, the `finally`
\* blocks close each of the `opened` connections, click prints the message
\* and exits with status 1.
Raises(cmd, status, args, opened) ==
    /\ last' = Outcome(cmd, status, args, NULL)
    /\ proc' = Exited(1, opened, opened)
    /\ UNCHANGED <<db, accounts, categories, records, config, now>>

\* A handler that prints and returns without writing: the `finally` blocks
\* close each of the `opened` connections, the process exits with status 0.
Returns(cmd, status, opened) ==
    /\ last' = Outcome(cmd, status, NoArgs, NULL)
    /\ proc' = Exited(0, opened, opened)
    /\ UNCHANGED <<db, accounts, categories, records, config, now>>

\* The rowid SQLite gives the next inserted record.
MaxOf(S) == CHOOSE x \in S : \A y \in S : y <= x
NextId == IF records = {} THEN 1 ELSE 1 + MaxOf({r.id : r \in records})

(* ------------------------------ commands ------------------------------ *)

\* The amount check with < in place of <=.
Negative(amount) == amount < 0

\* `if amount <= 0: raise ClickException("Amount must be positive.")`
NotPositive(amount) == amount <= 0

\* add, with the category left out of the INSERT.
AddedRowNoCategory(id, at, label, amount, record_date, account_id, category_id, income) ==
    [id |-> id, createdAt |-> at, updatedAt |-> at, label |-> label, amount |-> amount,
     date |-> record_date, accountId |-> account_id, categoryId |-> NULL,
     isInProgress |-> FALSE, isIncome |-> income, isTransfer |-> FALSE,
     transferToAccountId |-> NULL]

\* The row `add` inserts.
AddedRow(id, at, label, amount, record_date, account_id, category_id, income) ==
    [id |-> id, createdAt |-> at, updatedAt |-> at, label |-> label, amount |-> amount,
     date |-> record_date, accountId |-> account_id, categoryId |-> category_id,
     isInProgress |-> FALSE, isIncome |-> income, isTransfer |-> FALSE,
     transferToAccountId |-> NULL]

\* The row `transfer` inserts.
TransferRow(id, at, label, amount, record_date, from_id, to_id) ==
    [id |-> id, createdAt |-> at, updatedAt |-> at, label |-> label, amount |-> amount,
     date |-> record_date, accountId |-> from_id, categoryId |-> NULL,
     isInProgress |-> FALSE, isIncome |-> FALSE, isTransfer |-> TRUE,
     transferToAccountId |-> to_id]

\* transfer without the check that the two accounts differ.
NeverSameAccount(from_id, to_id) == FALSE

\* `if from_id == to_id: raise ...`
SameAccount(from_id, to_id) == from_id = to_id

\* balance set storing the target itself as the beginning balance.
SetBeginningToTarget(old_beginning, amount, current) == amount

\* balance set: new_beginning = old_beginning + (amount - current)
SetBeginning(old_beginning, amount, current) == old_beginning + (amount - current)

\* balance adjust subtracting the delta.
AdjustBeginningDown(old_beginning, amount) == old_beginning - amount

\* balance adjust: new_beginning = old_beginning + amount
AdjustBeginning(old_beginning, amount) == old_beginning + amount

\* The UPDATE of balance set and balance adjust without its WHERE clause.
UpdatedEveryAccount(tbl, acc_id, new_beginning, at) ==
    [i \in DOMAIN tbl |-> [tbl[i] EXCEPT !.beginningBalance = new_beginning,
                                         !.updatedAt = at]]

\* UPDATE account SET beginningBalance = ?, updatedAt = ? WHERE id = ?
UpdatedAccount(tbl, acc_id, new_beginning, at) ==
    [tbl EXCEPT ![acc_id].beginningBalance = new_beginning, ![acc_id].updatedAt = at]

\* bq add AMOUNT LABEL [-c category] [-a account] [-i] [-d date_str]
add(amount, label, category, account, income, date_str) ==
    LET acc == IF Truthy(account) THEN find_account(accounts, Val(account))
               ELSE get_default_account(accounts, get_config(config))
        cat == IF Truthy(category) THEN find_category(categories, Val(category))
               ELSE get_default_category(categories, get_config(config))
        record_date == IF Truthy(date_str) THEN ParseDate(Val(date_str)) ELSE now
        args == [NoArgs EXCEPT !.amount = {amount}, !.label = {label},
                               !.category = category, !.account = account,
                               !.income = {income}, !.date = date_str]
    IN  IF NotPositive(amount) THEN Raises("add", "bad_amount", NoArgs, 0)
        ELSE IF ~db THEN Raises("add", "no_database", NoArgs, 0)
        ELSE IF acc.kind = "ambiguous" THEN Raises("add", "ambiguous", NoArgs, 1)
        ELSE IF acc.kind = "none" THEN Raises("add", "no_account", NoArgs, 1)
        ELSE IF cat.kind = "ambiguous" THEN Raises("add", "ambiguous", NoArgs, 1)
        ELSE IF Truthy(category) /\ cat.kind = "none"
             THEN Raises("add", "no_category", NoArgs, 1)
        ELSE IF Truthy(date_str) /\ ~ValidDate(Val(date_str))
             THEN Raises("add", "bad_date", NoArgs, 1)
        ELSE /\ records' = records \cup
                  {AddedRow(NextId, now, label, amount, record_date, acc.id, cat.id, income)}
             /\ now' = now + 1
             /\ last' = Outcome("add", "ok", args, NextId)
             /\ proc' = Exited(0, 1, 1)
             /\ UNCHANGED <<db, accounts, categories, config>>

\* bq transfer AMOUNT LABEL --from from_account --to to_account [-d date_str]
transfer(amount, label, from_account, to_account, date_str) ==
    LET from_result == find_account(accounts, from_account)
        to_result == find_account(accounts, to_account)
        record_date == IF Truthy(date_str) THEN ParseDate(Val(date_str)) ELSE now
        args == [NoArgs EXCEPT !.amount = {amount}, !.label = {label},
                               !.from = {from_account}, !.to = {to_account},
                               !.date = date_str]
    IN  IF NotPositive(amount) THEN Raises("transfer", "bad_amount", NoArgs, 0)
        ELSE IF ~db THEN Raises("transfer", "no_database", NoArgs, 0)
        ELSE IF from_result.kind = "ambiguous" THEN Raises("transfer", "ambiguous", NoArgs, 1)
        ELSE IF from_result.kind = "none" THEN Raises("transfer", "no_account", NoArgs, 1)
        ELSE IF to_result.kind = "ambiguous" THEN Raises("transfer", "ambiguous", NoArgs, 1)
        ELSE IF to_result.kind = "none" THEN Raises("transfer", "no_account", NoArgs, 1)
        ELSE IF SameAccount(from_result.id, to_result.id)
             THEN Raises("transfer", "same_account",
                         [NoArgs EXCEPT !.from = {from_account}, !.to = {to_account}], 1)
        ELSE IF Truthy(date_str) /\ ~ValidDate(Val(date_str))
             THEN Raises("transfer", "bad_date", NoArgs, 1)
        ELSE /\ records' = records \cup
                  {TransferRow(NextId, now, label, amount, record_date,
                               from_result.id, to_result.id)}
             /\ now' = now + 1
             /\ last' = Outcome("transfer", "ok", args, NextId)
             /\ proc' = Exited(0, 1, 1)
             /\ UNCHANGED <<db, accounts, categories, config>>

\* bq balance set ACCOUNT AMOUNT
balance_set(account, amount) ==
    LET acc_result == find_account(accounts, account)
        acc_id == acc_result.id
        old_beginning == accounts[acc_id].beginningBalance
        current == calculate_account_balance(records, acc_id, old_beginning)
        new_beginning == SetBeginning(old_beginning, amount, current)
        args == [NoArgs EXCEPT !.account = {account}, !.amount = {amount}]
    IN  IF ~db THEN Raises("balance_set", "no_database", NoArgs, 0)
        ELSE IF acc_result.kind = "ambiguous"
             THEN Raises("balance_set", "ambiguous", NoArgs, 1)
        ELSE IF acc_result.kind = "none" THEN Raises("balance_set", "no_account", NoArgs, 1)
        ELSE /\ accounts' = UpdatedAccount(accounts, acc_id, new_beginning, now)
             /\ now' = now + 1
             /\ last' = Outcome("balance_set", "ok", args, NULL)
             /\ proc' = Exited(0, 1, 1)
             /\ UNCHANGED <<db, categories, records, config>>

\* bq balance adjust ACCOUNT AMOUNT
balance_adjust(account, amount) ==
    LET acc_result == find_account(accounts, account)
        acc_id == acc_result.id
        old_beginning == accounts[acc_id].beginningBalance
        new_beginning == AdjustBeginning(old_beginning, amount)
        args == [NoArgs EXCEPT !.account = {account}, !.amount = {amount}]
    IN  IF ~db THEN Raises("balance_adjust", "no_database", NoArgs, 0)
        ELSE IF acc_result.kind = "ambiguous"
             THEN Raises("balance_adjust", "ambiguous", NoArgs, 1)
        ELSE IF acc_result.kind = "none"
             THEN Raises("balance_adjust", "no_account", NoArgs, 1)
        ELSE /\ accounts' = UpdatedAccount(accounts, acc_id, new_beginning, now)
             /\ now' = now + 1
             /\ last' = Outcome("balance_adjust", "ok", args, NULL)
             /\ proc' = Exited(0, 1, 1)
             /\ UNCHANGED <<db, categories, records, config>>

\* bq last, bq cats, bq accs and bq balance: open the database, print what
\* they select, close it.
show(cmd) ==
    IF ~db THEN Raises(cmd, "no_database", NoArgs, 0)
    ELSE Returns(cmd, "ok", 1)

\* bq where: prints the paths, or the message of the ClickException that
\* get_db_path raised and where caught.
where ==
    IF ~db THEN Returns("where", "no_database", 0)
    ELSE Returns("where", "ok", 0)

\* The rows ORDER BY createdAt DESC LIMIT 1 OFFSET k can return: a row with
\* exactly k rows before it in some ordering by createdAt descending.
RowsAtOffset(rows, k) ==
    {r \in rows :
        /\ Cardinality({x \in rows : x.createdAt > r.createdAt}) <= k
        /\ Cardinality({x \in rows : x.createdAt >= r.createdAt}) > k}

\* undo ordering by the date column instead of createdAt.
LastDated(rows) == {r \in rows : \A x \in rows : x.date <= r.date}

\* undo's SELECT ... ORDER BY r.createdAt DESC LIMIT 1
LastCreated(rows) == RowsAtOffset(rows, 0)

\* bq undo [-y]; `answer` is what the user replies when click.confirm asks.
undo(yes, answer) ==
    IF ~db THEN Raises("undo", "no_database", NoArgs, 0)
    ELSE IF LastCreated(records) = {} THEN Returns("undo", "no_record", 1)
    ELSE IF ~yes /\ get_config(config).confirm_undo /\ ~answer
         THEN Returns("undo", "cancelled", 1)
    ELSE \E r \in LastCreated(records) :
            /\ records' = {x \in records : x.id # r.id}
            /\ last' = Outcome("undo", "ok", NoArgs, r.id)
            /\ proc' = Exited(0, 1, 1)
            /\ UNCHANGED <<db, accounts, categories, config, now>>

\* The UPDATE of edit with categoryId always in the SET list: a run without
\* -c writes None into it.
UpdatedCategoryAlways(r, amount, new_label, cat_id, acc_id, new_date, is_income, at) ==
    [r EXCEPT !.amount = IF Given(amount) THEN Val(amount) ELSE @,
              !.label = IF Given(new_label) THEN Val(new_label) ELSE @,
              !.categoryId = IF Given(cat_id) THEN Val(cat_id) ELSE NULL,
              !.accountId = IF Given(acc_id) THEN Val(acc_id) ELSE @,
              !.date = IF Given(new_date) THEN Val(new_date) ELSE @,
              !.isIncome = IF Given(is_income) THEN Val(is_income) ELSE @,
              !.updatedAt = at]

\* The UPDATE of edit: SET only the columns whose option was passed, and
\* updatedAt.
Updated(r, amount, new_label, cat_id, acc_id, new_date, is_income, at) ==
    [r EXCEPT !.amount = IF Given(amount) THEN Val(amount) ELSE @,
              !.label = IF Given(new_label) THEN Val(new_label) ELSE @,
              !.categoryId = IF Given(cat_id) THEN Val(cat_id) ELSE @,
              !.accountId = IF Given(acc_id) THEN Val(acc_id) ELSE @,
              !.date = IF Given(new_date) THEN Val(new_date) ELSE @,
              !.isIncome = IF Given(is_income) THEN Val(is_income) ELSE @,
              !.updatedAt = at]

\* bq edit [-n num] [--amount] [--label] [-c] [-a] [-d] [--income/--expense]
edit(num, amount, new_label, category, account, date_str, is_income) ==
    LET cat_result == find_category(categories, Val(category))
        acc_result == find_account(accounts, Val(account))
        args == [NoArgs EXCEPT !.num = {num}, !.amount = amount, !.label = new_label,
                               !.category = category, !.account = account,
                               !.date = date_str, !.income = is_income]
    IN  IF ~Given(amount) /\ ~Given(new_label) /\ ~Given(category) /\ ~Given(account)
           /\ ~Given(date_str) /\ ~Given(is_income)
        THEN Raises("edit", "no_fields", NoArgs, 0)
        ELSE IF ~db THEN Raises("edit", "no_database", NoArgs, 0)
        ELSE IF RowsAtOffset(records, num - 1) = {} THEN Returns("edit", "no_record", 1)
        ELSE IF Given(amount) /\ NotPositive(Val(amount))
             THEN Raises("edit", "bad_amount", NoArgs, 1)
        ELSE IF Given(category) /\ cat_result.kind = "ambiguous"
             THEN Raises("edit", "ambiguous", NoArgs, 1)
        ELSE IF Given(category) /\ cat_result.kind = "none"
             THEN Raises("edit", "no_category", NoArgs, 1)
        ELSE IF Given(account) /\ acc_result.kind = "ambiguous"
             THEN Raises("edit", "ambiguous", NoArgs, 1)
        ELSE IF Given(account) /\ acc_result.kind = "none"
             THEN Raises("edit", "no_account", NoArgs, 1)
        ELSE IF Given(date_str) /\ ~ValidDate(Val(date_str))
             THEN Raises("edit", "bad_date", NoArgs, 1)
        ELSE \E r \in RowsAtOffset(records, num - 1) :
                /\ records' = (records \ {r}) \cup
                     {Updated(r, amount, new_label,
                              IF Given(category) THEN {cat_result.id} ELSE {},
                              IF Given(account) THEN {acc_result.id} ELSE {},
                              IF Given(date_str) THEN {ParseDate(Val(date_str))} ELSE {},
                              is_income, now)}
                /\ now' = now + 1
                /\ last' = Outcome("edit", "ok", args, r.id)
                /\ proc' = Exited(0, 1, 1)
                /\ UNCHANGED <<db, accounts, categories, config>>

\* bq config show
config_show == Returns("config_show", "ok", 0)

\* The end of config set: save_config(cfg) after `opened` connections were
\* opened and closed.  The clock moves on while the file is written.
Saves(cfg, key, value, opened) ==
    /\ config' = save_config(cfg)
    /\ now' = now + 1
    /\ last' = Outcome("config_set", "ok", [NoArgs EXCEPT !.key = {key}, !.value = {value}], NULL)
    /\ proc' = Exited(0, opened, opened)
    /\ UNCHANGED <<db, accounts, categories, records>>

\* bq config set KEY VALUE
config_set(key, value) ==
    LET cfg == get_config(config)
        acc == find_account(accounts, value)
        cat == find_category(categories, value)
    IN  IF key = "default_account"
        THEN IF Lower(value) = NoneWord
             THEN Saves([cfg EXCEPT !.default_account = <<>>], key, value, 0)
             ELSE IF ~db THEN Raises("config_set", "no_database", NoArgs, 0)
             ELSE IF acc.kind = "ambiguous" THEN Raises("config_set", "ambiguous", NoArgs, 1)
             ELSE IF acc.kind = "none" THEN Raises("config_set", "no_account", NoArgs, 1)
             ELSE Saves([cfg EXCEPT !.default_account = acc.name], key, value, 1)
        ELSE IF key = "default_category"
        THEN IF Lower(value) = NoneWord
             THEN Saves([cfg EXCEPT !.default_category = <<>>], key, value, 0)
             ELSE IF ~db THEN Raises("config_set", "no_database", NoArgs, 0)
             ELSE IF cat.kind = "ambiguous" THEN Raises("config_set", "ambiguous", NoArgs, 1)
             ELSE IF cat.kind = "none" THEN Raises("config_set", "no_category", NoArgs, 1)
             ELSE Saves([cfg EXCEPT !.default_category = cat.name], key, value, 1)
        ELSE IF key = "confirm_undo"
        THEN IF Lower(value) \in TrueWords
             THEN Saves([cfg EXCEPT !.confirm_undo = TRUE], key, value, 0)
             ELSE IF Lower(value) \in FalseWords
             THEN Saves([cfg EXCEPT !.confirm_undo = FALSE], key, value, 0)
             ELSE Raises("config_set", "bad_value", NoArgs, 0)
        ELSE IF key = "show_balance_after_add"
        THEN IF Lower(value) \in TrueWords
             THEN Saves([cfg EXCEPT !.show_balance_after_add = TRUE], key, value, 0)
             ELSE IF Lower(value) \in FalseWords
             THEN Saves([cfg EXCEPT !.show_balance_after_add = FALSE], key, value, 0)
             ELSE Raises("config_set", "bad_value", NoArgs, 0)
        ELSE Raises("config_set", "unknown_key", NoArgs, 0)

\* bq config reset [-y]; `answer` is the reply to click.confirm.  The file
\* is unlinked if it exists; the clock moves on meanwhile.
config_reset(yes, answer) ==
    IF ~yes /\ ~answer THEN Returns("config_reset", "cancelled", 0)
    ELSE /\ config' = NoConfigFile
         /\ now' = now + 1
         /\ last' = Outcome("config_reset", "ok", NoArgs, NULL)
         /\ proc' = Exited(0, 0, 0)
         /\ UNCHANGED <<db, accounts, categories, records>>

(* --------------------------- specification ---------------------------- *)

Nums == 1..3

\* The option combinations `edit` is called with: every subset of the six
\* options with one value each, and every single option with every value.
EditFields == {"amount", "label", "category", "account", "date", "income"}
EditArgs ==
    LET all == [amount : Opt(NewAmounts), label : Opt(NewLabels), category : Opt(CategorySearches),
                account : Opt(AccountSearches), date : Opt(DateStrs), income : Opt(BOOLEAN)]
        usual == [amount : Opt({30}), label : Opt(NewLabels), category : Opt({<<"f", "o">>}),
                  account : Opt({<<"c">>}), date : Opt({<<"2024-01-01">>}), income : Opt({TRUE})]
    IN  usual \cup {a \in all : Cardinality({f \in EditFields : Given(a[f])}) = 1}

\* The commands that only read the database.
ShowCommands == {"last", "cats", "accs", "balance"}

\* No bq process is running: the last one has exited.
Idle == last.cmd = "none"

Add ==
    /\ Idle /\ now <= MaxNow
    /\ \E amount \in Amounts, label \in Labels, category \in Opt(CategorySearches),
          account \in Opt(AccountSearches), income \in BOOLEAN, date_str \in Opt(DateStrs) :
          add(amount, label, category, account, income, date_str)

Transfer ==
    /\ Idle /\ now <= MaxNow
    /\ \E amount \in Amounts, label \in Labels, from_account \in AccountSearches,
          to_account \in AccountSearches, date_str \in Opt(DateStrs) :
          transfer(amount, label, from_account, to_account, date_str)

BalanceSet ==
    /\ Idle /\ now <= MaxNow
    /\ \E a \in AccountSearches, amount \in Targets : balance_set(a, amount)

BalanceAdjust ==
    /\ Idle /\ now <= MaxNow
    /\ \E a \in AccountSearches, amount \in Deltas : balance_adjust(a, amount)

Undo == Idle /\ \E yes \in BOOLEAN, answer \in BOOLEAN : undo(yes, answer)

Edit ==
    /\ Idle /\ now <= MaxNow
    /\ \E num \in Nums, a \in EditArgs :
          edit(num, a.amount, a.label, a.category, a.account, a.date, a.income)

Show == Idle /\ now <= MaxNow /\ \E cmd \in ShowCommands : show(cmd)

Where == Idle /\ now <= MaxNow /\ where

ConfigShow == Idle /\ now <= MaxNow /\ config_show

ConfigSet ==
    /\ Idle /\ now <= MaxNow
    /\ \E key \in ConfigKeys, value \in ConfigValues : config_set(key, value)

ConfigReset ==
    /\ Idle /\ now <= MaxNow
    /\ \E yes \in BOOLEAN, answer \in BOOLEAN : config_reset(yes, answer)

\* The process of the last command has exited; the tables, the config file
\* and the clock stay as it left them.
Exit ==
    /\ ~Idle
    /\ last' = Outcome("none", "ok", NoArgs, NULL)
    /\ proc' = Exited(0, 0, 0)
    /\ UNCHANGED <<db, accounts, categories, records, config, now>>

Next ==
    \/ Add \/ Transfer \/ BalanceSet \/ BalanceAdjust \/ Undo \/ Edit
    \/ Show \/ Where \/ ConfigShow \/ ConfigSet \/ ConfigReset \/ Exit

Spec == Init /\ [][Next]_vars

(* ------------------------------- claims ------------------------------- *)

\* The step is a run of command `cmd` that ended with `status`.
Ran(cmd, status) == last'.cmd = cmd /\ last'.status = status

\* The account and the category a run of add with arguments `a` resolves.
ResolvedAccount(a) ==
    IF Given(a.account) THEN find_account(accounts, Val(a.account))
    ELSE get_default_account(accounts, get_config(config))
ResolvedCategory(a) ==
    IF Given(a.category) THEN find_category(categories, Val(a.category))
    ELSE get_default_category(categories, get_config(config))

\* C1: a successful add (amount > 0, account and category resolved) inserts
\* exactly one record, with the given amount, the resolved account id and
\* category id, the --income flag as income flag and the transfer flag off,
\* and changes or removes no existing record.
C1_AddInsertsOneRecord ==
    [][Ran("add", "ok") =>
        LET a == last'.args
            new == records' \ records
        IN  /\ Val(a.amount) > 0
            /\ ResolvedAccount(a).kind = "found"
            /\ Given(a.category) => ResolvedCategory(a).kind = "found"
            /\ records \subseteq records'
            /\ Cardinality(new) = 1
            /\ \A r \in new :
                  /\ r.amount = Val(a.amount)
                  /\ r.accountId = ResolvedAccount(a).id
                  /\ r.categoryId = ResolvedCategory(a).id
                  /\ r.isIncome = Val(a.income)
                  /\ r.isTransfer = FALSE]_vars

\* An add with -a and -c given has just inserted a record with that category
\* next to the records that were there.
C1_Witness ==
    /\ last.cmd = "add" /\ last.status = "ok"
    /\ Given(last.args.account) /\ Given(last.args.category)
    /\ Cardinality(records) = 3
    /\ \E r \in records : r.id = last.id /\ r.categoryId # NULL /\ r.isIncome

\* The balance of account a as the ledger defines it.
LedgerBalance(a) ==
    accounts[a].beginningBalance
    + SumAmount({r \in records : ~r.isTransfer /\ r.isIncome /\ r.accountId = a})
    - SumAmount({r \in records : ~r.isTransfer /\ ~r.isIncome /\ r.accountId = a})
    - SumAmount({r \in records : r.isTransfer /\ r.accountId = a})
    + SumAmount({r \in records : r.isTransfer /\ r.transferToAccountId = a})

\* C2: in every reachable state the computed balance of every account is
\* beginning + non-transfer income - non-transfer expenses - transfers out
\* + transfers in; an account that began at 100 and has one expense of 50 as
\* the only record stands at 50.
C2_BalanceFormula ==
    \A a \in DOMAIN accounts :
        LET computed == calculate_account_balance(records, a, accounts[a].beginningBalance)
        IN  /\ computed = LedgerBalance(a)
            /\ (/\ accounts[a].beginningBalance = 100
                /\ \E r \in records : /\ records = {r}
                                      /\ r.accountId = a /\ r.amount = 50
                                      /\ ~r.isIncome /\ ~r.isTransfer)
               => computed = 50

\* An account that has non-transfer income, a non-transfer expense and an
\* incoming transfer at once.
C2_Witness ==
    \E a \in DOMAIN accounts :
        /\ \E r \in records : ~r.isTransfer /\ r.isIncome /\ r.accountId = a
        /\ \E r \in records : ~r.isTransfer /\ ~r.isIncome /\ r.accountId = a
        /\ \E r \in records : r.isTransfer /\ r.transferToAccountId = a

\* The example of C2: Checking began at 100, `add 50 -a Checking` ran on an
\* empty ledger.
C2_ExampleReached ==
    /\ last.cmd = "add" /\ last.status = "ok"
    /\ \E a \in DOMAIN accounts :
          /\ accounts[a].beginningBalance = 100
          /\ \E r \in records : records = {r} /\ r.accountId = a /\ r.amount = 50 /\ ~r.isIncome

\* The computed current balance of account a in this state and in the next.
Current(a) == calculate_account_balance(records, a, accounts[a].beginningBalance)
CurrentAfter(a) == calculate_account_balance(records', a, accounts'[a].beginningBalance)

\* C3: after a successful `balance set ACCOUNT X` the computed balance of the
\* resolved account is X, its new beginning balance being the old one plus
\* (X - current balance before), whatever records reference the account.
C3_SetReachesTarget ==
    [][Ran("balance_set", "ok") =>
        LET id == find_account(accounts, Val(last'.args.account)).id
            X == Val(last'.args.amount)
        IN  /\ accounts'[id].beginningBalance = accounts[id].beginningBalance + (X - Current(id))
            /\ CurrentAfter(id) = X]_vars

\* balance set has run on an account that records reference, to a target
\* that differs from the beginning balance it stored.
C3_Witness ==
    /\ last.cmd = "balance_set" /\ last.status = "ok"
    /\ LET id == find_account(accounts, Val(last.args.account)).id
       IN  /\ \E r \in records : r.accountId = id /\ ~r.isTransfer
           /\ \E r \in records : r.transferToAccountId = id
           /\ accounts[id].beginningBalance # Val(last.args.amount)
           /\ Current(id) = Val(last.args.amount)

\* C4: after a successful `balance adjust ACCOUNT D` the computed balance of
\* the resolved account is exactly D more than before, for D positive, zero
\* or negative, and the balance of every other account is unchanged.
C4_AdjustAddsDelta ==
    [][Ran("balance_adjust", "ok") =>
        LET id == find_account(accounts, Val(last'.args.account)).id
            D == Val(last'.args.amount)
        IN  \A a \in DOMAIN accounts :
               CurrentAfter(a) = Current(a) + (IF a = id THEN D ELSE 0)]_vars

\* balance adjust has run with a negative delta on an account that records
\* reference.
C4_Witness ==
    /\ last.cmd = "balance_adjust" /\ last.status = "ok"
    /\ Val(last.args.amount) < 0
    /\ \E r \in records : r.accountId = find_account(accounts, Val(last.args.account)).id

\* C5: a transfer whose --from and --to resolve to the same account id fails
\* and inserts nothing; the record a successful transfer inserts has a
\* destination account different from its source account.
C5_TransferNeedsTwoAccounts ==
    [][/\ Ran("transfer", "ok") =>
            LET f == find_account(accounts, Val(last'.args.from))
                t == find_account(accounts, Val(last'.args.to))
            IN  /\ f.id # t.id
                /\ \A r \in records' \ records :
                      /\ r.isTransfer
                      /\ r.accountId = f.id /\ r.transferToAccountId = t.id
                      /\ r.transferToAccountId # r.accountId
       /\ Ran("transfer", "same_account") =>
            /\ records' = records
            /\ find_account(accounts, Val(last'.args.from)).id
                 = find_account(accounts, Val(last'.args.to)).id]_vars

\* A transfer was refused because two different strings, one an exact name
\* and one a partial name, resolved to the same account.
C5_Witness ==
    /\ last.cmd = "transfer" /\ last.status = "same_account"
    /\ Val(last.args.from) # Val(last.args.to)
    /\ Lower(Val(last.args.from)) # Lower(Val(last.args.to))

\* C6: a confirmed undo on a non-empty table removes exactly the record with
\* the greatest creation timestamp, whatever the date fields are, and leaves
\* every other record as it was; an undo that is cancelled or finds the
\* table empty deletes nothing.
C6_UndoRemovesLastCreated ==
    [][/\ Ran("undo", "ok") =>
            \E r \in records :
               /\ \A x \in records : x.createdAt <= r.createdAt
               /\ r.id = last'.id
               /\ records' = records \ {r}
       /\ (last'.cmd = "undo" /\ last'.status # "ok") => records' = records
       /\ (last'.cmd = "undo" /\ records = {}) => records' = {}]_vars

\* undo has deleted the host's transfer, the last created record, while the
\* host's expense, which carries a later date, is still in the table.
C6_Witness ==
    /\ last.cmd = "undo" /\ last.status = "ok" /\ last.id = HostTransfer.id
    /\ HostExpense \in records
    /\ HostExpense.date > HostTransfer.date

\* s and t are equal ignoring case; sub occurs in s ignoring case.
EqualIgnoringCase(s, t) ==
    Len(s) = Len(t) /\ \A i \in 1..Len(s) : LowerChar(s[i]) = LowerChar(t[i])
ContainsIgnoringCase(s, sub) ==
    \E k \in 0..(Len(s) - Len(sub)) :
        \A i \in 1..Len(sub) : LowerChar(s[k + i]) = LowerChar(sub[i])

\* C7: when a live account or category has a name equal to the search string
\* ignoring case, the resolver returns that entity and no ambiguity error,
\* whatever other live names contain the search string.
C7_ExactMatchWins ==
    /\ \A search \in AccountSearches : \A i \in DOMAIN accounts :
          (accounts[i].deletedAt = NULL /\ EqualIgnoringCase(accounts[i].name, search))
          => (find_account(accounts, search).kind = "found"
              /\ find_account(accounts, search).id = i)
    /\ \A search \in CategorySearches : \A i \in DOMAIN categories :
          (categories[i].deletedAt = NULL /\ EqualIgnoringCase(categories[i].name, search))
          => (find_category(categories, search).kind = "found"
              /\ find_category(categories, search).id = i)

\* add has run with -a and -c strings that each equal one live name ignoring
\* case while another live name contains them, and has written the ids of
\* the exact matches.
C7_Witness ==
    /\ last.cmd = "add" /\ last.status = "ok"
    /\ Given(last.args.account) /\ Given(last.args.category)
    /\ \E r \in records, i, j \in DOMAIN accounts, c, d \in DOMAIN categories :
          /\ r.id = last.id /\ r.accountId = i /\ r.categoryId = c
          /\ i # j /\ accounts[i].deletedAt = NULL /\ accounts[j].deletedAt = NULL
          /\ EqualIgnoringCase(accounts[i].name, Val(last.args.account))
          /\ ContainsIgnoringCase(accounts[j].name, Val(last.args.account))
          /\ c # d /\ categories[c].deletedAt = NULL /\ categories[d].deletedAt = NULL
          /\ EqualIgnoringCase(categories[c].name, Val(last.args.category))
          /\ ContainsIgnoringCase(categories[d].name, Val(last.args.category))

\* C8: every record in the table has amount > 0, after any sequence of add,
\* transfer, edit and undo runs, successful or failed.
C8_AmountsPositive == \A r \in records : r.amount > 0

\* edit --amount has just been refused for a non-positive amount, on a table
\* that holds records.
C8_Witness ==
    /\ last.cmd = "edit" /\ last.status = "bad_amount"
    /\ records # {}

\* C9: every transfer record has no category, a destination account, and a
\* destination different from its source; every other record has no
\* destination account.
C9_RecordShapes ==
    \A r \in records :
        /\ r.isTransfer => /\ r.categoryId = NULL
                           /\ r.transferToAccountId # NULL
                           /\ r.transferToAccountId # r.accountId
        /\ ~r.isTransfer => r.transferToAccountId = NULL

\* C10: a successful edit of the record at position n changes, among its
\* amount, label, category, account, date and income flag, only those an
\* option was passed for, and changes no other record.
C10_EditFrame ==
    [][Ran("edit", "ok") =>
        LET a == last'.args
        IN  \E r \in records, e \in records' :
               /\ r.id = last'.id /\ e.id = r.id
               /\ Cardinality({x \in records : x.createdAt > r.createdAt}) = Val(a.num) - 1
               /\ records' \ {e} = records \ {r}
               /\ ~Given(a.amount) => e.amount = r.amount
               /\ ~Given(a.label) => e.label = r.label
               /\ ~Given(a.category) => e.categoryId = r.categoryId
               /\ ~Given(a.account) => e.accountId = r.accountId
               /\ ~Given(a.date) => e.date = r.date
               /\ ~Given(a.income) => e.isIncome = r.isIncome]_vars

\* edit -n 2 --amount has changed the amount of the second-last record, the
\* host's expense, which keeps its category, account, date and label, next
\* to the host's transfer.
C10_Witness ==
    /\ last.cmd = "edit" /\ last.status = "ok"
    /\ Val(last.args.num) = 2 /\ Given(last.args.amount)
    /\ ~Given(last.args.category) /\ ~Given(last.args.account)
    /\ ~Given(last.args.date) /\ ~Given(last.args.label) /\ ~Given(last.args.income)
    /\ HostTransfer \in records
    /\ \E e \in records :
          /\ e.id = last.id /\ e.id = HostExpense.id
          /\ e.amount = Val(last.args.amount) /\ e.amount # HostExpense.amount
          /\ e.categoryId = HostExpense.categoryId /\ e.categoryId # NULL

\* The statuses of a command that ended in an error.
ErrorKinds ==
    {"no_database", "ambiguous", "no_account", "no_category", "no_record", "bad_amount",
     "bad_date", "bad_value", "unknown_key", "no_fields", "same_account"}

\* C11: a command that ends in an error kind (database not found, ambiguous
\* match, account, category or record not found, non-positive amount,
\* malformed date, unknown config key or invalid config value, edit with no
\* fields) leaves the record, account and category tables and the config
\* file exactly as they were before it.
C11_FailuresWriteNothing ==
    [][(last'.cmd # "none" /\ last'.status \in ErrorKinds)
          => UNCHANGED <<accounts, categories, records, config>>]_vars

\* config set has loaded the config, failed to find the account it was given,
\* and left no config file where there was none.
C11_Witness ==
    /\ last.cmd = "config_set" /\ last.status = "no_account"
    /\ ~config.exists
    /\ records # {}

\* The rows of a table that are not soft-deleted.
Live(tbl) == {i \in DOMAIN tbl : tbl[i].deletedAt = NULL}

\* The lookup result r names only live rows of tbl: a found row is live, and
\* an ambiguity lists two or more names, each of a live row.
OnlyLive(tbl, r) ==
    /\ r.kind = "found" => (r.id \in Live(tbl) /\ r.name = tbl[r.id].name)
    /\ r.kind = "ambiguous" => /\ r.names \subseteq {tbl[i].name : i \in Live(tbl)}
                               /\ Cardinality(r.names) >= 2

\* C12: on the tables and the config file any command starts from, no
\* lookup returns a soft-deleted account or category, by explicit name, by
\* configured default or by the first-account fallback, nor lists one in
\* an ambiguity; the ids a successful add, transfer or edit has just
\* written and the name a successful config set has just stored are those
\* of rows that are live.  (These commands leave the account and category
\* tables as they are, so live after the command is live at its time.)
C12_LookupsSkipDeleted ==
    /\ Idle =>
          /\ \A s \in AccountSearches :
                \A r \in {find_account(accounts, s)} : OnlyLive(accounts, r)
          /\ \A s \in CategorySearches :
                \A r \in {find_category(categories, s)} : OnlyLive(categories, r)
          /\ \A r \in {get_default_account(accounts, get_config(config))} :
                OnlyLive(accounts, r)
          /\ \A r \in {get_default_category(categories, get_config(config))} :
                OnlyLive(categories, r)
    /\ (last.cmd \in {"add", "transfer"} /\ last.status = "ok") =>
          \A r \in {x \in records : x.id = last.id} :
             /\ r.accountId \in Live(accounts)
             /\ r.categoryId # NULL => r.categoryId \in Live(categories)
             /\ r.transferToAccountId # NULL => r.transferToAccountId \in Live(accounts)
    /\ (last.cmd = "edit" /\ last.status = "ok") =>
          \A e \in {x \in records : x.id = last.id} :
             /\ Given(last.args.account) => e.accountId \in Live(accounts)
             /\ Given(last.args.category) => e.categoryId \in Live(categories)
    /\ (last.cmd = "config_set" /\ last.status = "ok"
          /\ Lower(Val(last.args.value)) # NoneWord) =>
          /\ Val(last.args.key) = "default_account" =>
                \E i \in Live(accounts) : config.saved.default_account = accounts[i].name
          /\ Val(last.args.key) = "default_category" =>
                \E i \in Live(categories) : config.saved.default_category = categories[i].name

\* add has run with -a and -c strings that equal, ignoring case, the names of
\* a soft-deleted account and a soft-deleted category, and has written the
\* ids of live rows instead.
C12_Witness ==
    /\ last.cmd = "add" /\ last.status = "ok"
    /\ Given(last.args.account) /\ Given(last.args.category)
    /\ \E r \in records, i \in DOMAIN accounts, c \in DOMAIN categories :
          /\ r.id = last.id
          /\ accounts[i].deletedAt # NULL
          /\ EqualIgnoringCase(accounts[i].name, Val(last.args.account))
          /\ r.accountId \in Live(accounts)
          /\ categories[c].deletedAt # NULL
          /\ EqualIgnoringCase(categories[c].name, Val(last.args.category))
          /\ r.categoryId \in Live(categories)

\* The account a successful balance set or balance adjust step resolved.
Adjusted ==
    IF Ran("balance_set", "ok") \/ Ran("balance_adjust", "ok")
    THEN {find_account(accounts, Val(last'.args.account)).id}
    ELSE {}

\* C13 as stated: no command inserts or deletes an account or a category or
\* modifies a category, and the only change to an account is the beginning
\* balance of the one account a balance set or balance adjust resolved.
C13_OnlyBeginningBalance ==
    [][/\ DOMAIN accounts' = DOMAIN accounts
       /\ categories' = categories
       /\ \A i \in DOMAIN accounts :
             /\ i \notin Adjusted => accounts'[i] = accounts[i]
             /\ [accounts'[i] EXCEPT !.beginningBalance = accounts[i].beginningBalance]
                   = accounts[i]]_vars

\* C13, amended: no command inserts or deletes an account or a category or
\* modifies a category; balance set and balance adjust change the beginning
\* balance and the updatedAt timestamp of the one account they resolve and
\* nothing else; every other command leaves both tables unchanged.
C13_AccountFrame ==
    [][/\ DOMAIN accounts' = DOMAIN accounts
       /\ categories' = categories
       /\ \A i \in DOMAIN accounts :
             /\ i \notin Adjusted => accounts'[i] = accounts[i]
             /\ [accounts'[i] EXCEPT !.beginningBalance = accounts[i].beginningBalance,
                                     !.updatedAt = accounts[i].updatedAt]
                   = accounts[i]]_vars

\* balance set has changed the beginning balance and the timestamp of the
\* account it resolved, next to another live account it left alone.
C13_Witness ==
    /\ last.cmd = "balance_set" /\ last.status = "ok"
    /\ LET id == find_account(accounts, Val(last.args.account)).id
       IN  /\ accounts[id].updatedAt # 0
           /\ Current(id) = Val(last.args.amount)
           /\ accounts[id].beginningBalance \notin {0, 7, 100}
           /\ \E j \in Live(accounts) : j # id /\ accounts[j].updatedAt = 0

\* C14: every command that ends in an error kind (database not found,
\* ambiguous match, account, category or record not found, invalid input,
\* edit with no fields) exits with a non-zero status, so a command that
\* exits with status 0 completed its operation; `where` without a database
\* file and `edit -n k` on fewer than k records are such errors.  (An undo
\* that finds no record to delete is not counted as an error here.)
C14_ErrorsExitNonZero ==
    (last.cmd \notin {"none", "undo"} /\ last.status \in ErrorKinds) => proc.code # 0

\* C15 as stated: every command opens exactly one database connection and
\* closes it before the process exits.
C15_OneConnection ==
    last.cmd # "none" => (proc.opened = 1 /\ proc.closed = 1)

\* The last command had no use for the database, or failed before it
\* reached for it.
OpensNoConnection ==
    \/ last.cmd \in {"where", "config_show", "config_reset"}
    \/ last.status \in {"no_database", "no_fields", "bad_value", "unknown_key"}
    \/ last.cmd \in {"add", "transfer"} /\ last.status = "bad_amount"
    \/ /\ last.cmd = "config_set" /\ last.status = "ok"
       /\ \/ Val(last.args.key) \in {"confirm_undo", "show_balance_after_add"}
          \/ Lower(Val(last.args.value)) = NoneWord

\* C15, amended: every command opens at most one database connection and
\* closes it before the process exits, on every path, errors raised after
\* the connection was opened included; it opens none when it is where,
\* config show, config reset or config set of a boolean key or of 'none',
\* and when it fails before it needs the database (non-positive amount of
\* add or transfer, edit with no fields, unknown config key, invalid config
\* value, database file not found).
C15_ConnectionsClosed ==
    last.cmd # "none" =>
        /\ proc.closed = proc.opened
        /\ proc.opened = IF OpensNoConnection THEN 0 ELSE 1

\* add has opened its connection, failed on the date string and closed the
\* connection on the way out.
C15_Witness ==
    /\ last.cmd = "add" /\ last.status = "bad_date"
    /\ proc.code = 1 /\ proc.opened = 1 /\ proc.closed = 1

\* C16: the loaded configuration is the defaults overridden by the file: a
\* key in the file has the file's value, a known key not in the file has its
\* default, a key in the file that is no known setting is in the loaded
\* configuration; after a successful config set every key other than the
\* one set, unknown keys included, is in the file with the value it loaded
\* with.
C16_ConfigMerge ==
    [][/\ LET loaded == get_config(config)
          IN  /\ \A k \in DOMAIN Defaults :
                    loaded[k] = IF config.exists /\ k \in DOMAIN config.saved
                                THEN config.saved[k] ELSE Defaults[k]
              /\ config.exists =>
                    \A k \in DOMAIN config.saved :
                       k \in DOMAIN loaded /\ loaded[k] = config.saved[k]
       /\ Ran("config_set", "ok") =>
             /\ config'.exists
             /\ config.exists => DOMAIN config.saved \subseteq DOMAIN config'.saved
             /\ \A k \in DOMAIN get_config(config) \ {Val(last'.args.key)} :
                   k \in DOMAIN config'.saved /\ config'.saved[k] = get_config(config)[k]
      ]_vars

\* config set confirm_undo has rewritten a file that held the unknown key
\* theme and no show_balance_after_add: the file holds theme as before, the
\* default of show_balance_after_add and the default account it had.
C16_Witness ==
    /\ last.cmd = "config_set" /\ last.status = "ok"
    /\ Val(last.args.key) = "confirm_undo"
    /\ "theme" \in DOMAIN config.saved
    /\ config.saved.theme = "dark"
    /\ config.saved.show_balance_after_add = FALSE
    /\ config.saved.confirm_undo = TRUE
    /\ config.saved.default_account = <<"A", "b", "c">>

\* What the claimed resolver returns for `search` on table tbl when no live
\* name equals it: decided by the live names that contain it.
DecidedBySubstring(tbl, search, r) ==
    LET equal == {i \in Live(tbl) : EqualIgnoringCase(tbl[i].name, search)}
        containing == {i \in Live(tbl) : ContainsIgnoringCase(tbl[i].name, search)}
    IN  equal = {} =>
           /\ containing = {} => r.kind = "none"
           /\ Cardinality(containing) = 1 => (r.kind = "found" /\ r.id \in containing)
           /\ Cardinality(containing) >= 2 =>
                 (r.kind = "ambiguous" /\ r.names = {tbl[i].name : i \in containing})

\* C17: when no live name equals the search string ignoring case, the
\* resolver decides on the live names that contain it ignoring case: none
\* gives not found, one gives that entity, two or more give an ambiguity
\* listing every candidate; for every search string, for accounts and for
\* categories alike.
C17_PartialMatchBySubstring ==
    /\ \A search \in AccountSearches :
          DecidedBySubstring(accounts, search, find_account(accounts, search))
    /\ \A search \in CategorySearches :
          DecidedBySubstring(categories, search, find_category(categories, search))

\* The sum of the computed balances of the accounts `ids`.
RECURSIVE TotalBalance(_, _, _)
TotalBalance(rows, tbl, ids) ==
    IF ids = {} THEN 0
    ELSE LET i == CHOOSE x \in ids : TRUE
         IN  calculate_account_balance(rows, i, tbl[i].beginningBalance)
             + TotalBalance(rows, tbl, ids \ {i})

\* C18: a successful transfer of A from S to T lowers the computed balance
\* of S by A, raises that of T by A and leaves every other balance, and so
\* the sum of all balances, unchanged; a successful edit of a transfer
\* record leaves the sum of all balances unchanged.
C18_TransferConservesTotal ==
    [][/\ Ran("transfer", "ok") =>
             LET S == find_account(accounts, Val(last'.args.from)).id
                 T == find_account(accounts, Val(last'.args.to)).id
                 A == Val(last'.args.amount)
             IN  /\ \A a \in DOMAIN accounts :
                       CurrentAfter(a) = Current(a) + (IF a = T THEN A ELSE 0)
                                                    - (IF a = S THEN A ELSE 0)
                 /\ TotalBalance(records', accounts', DOMAIN accounts')
                       = TotalBalance(records, accounts, DOMAIN accounts)
       /\ (Ran("edit", "ok") /\ \E r \in records : r.id = last'.id /\ r.isTransfer) =>
             /\ TotalBalance(records', accounts', DOMAIN accounts')
                   = TotalBalance(records, accounts, DOMAIN accounts)
             /\ TotalBalance(records', accounts', Live(accounts'))
                   = TotalBalance(records, accounts, Live(accounts))
      ]_vars

\* A transfer has moved 50 between two accounts that the host's records
\* already reference, against the direction of the host's transfer.
C18_Witness ==
    /\ last.cmd = "transfer" /\ last.status = "ok"
    /\ {HostExpense, HostTransfer} \subseteq records
    /\ \E r \in records :
          /\ r.id = last.id /\ r.amount = 50
          /\ r.accountId = HostTransfer.transferToAccountId
          /\ r.transferToAccountId = HostTransfer.accountId

\* C19: undo -y right after a successful add or transfer deletes the record
\* just inserted, which leaves the record table and every computed balance
\* as they were before the add or transfer, whatever records the table held.
C19_UndoInvertsInsert ==
    [][(Ran("add", "ok") \/ Ran("transfer", "ok")) =>
          \A r \in LastCreated(records') :
             LET after_undo == {x \in records' : x.id # r.id}
             IN  /\ r.id = last'.id
                 /\ after_undo = records
                 /\ \A a \in DOMAIN accounts :
                       calculate_account_balance(after_undo, a, accounts'[a].beginningBalance)
                          = Current(a)]_vars

====
